---- MODULE Spec2Model ----
(***************************************************************************)
(* Model of the DynaDraw stroke simulator                                  *)
(* (src/application_rewriten/src/VectorVideo/Drawing/DynaDraw.ts):         *)
(* the DynaDraw orchestrator, its BrushTip and the brush cache, driven by  *)
(* cursor samples, brush-size changes and animation-frame callbacks.       *)
(*                                                                         *)
(* Numbers.  The source computes with IEEE doubles.  Lengths, velocities   *)
(* and pressures are modelled in fixed point: a value v of the program is  *)
(* the integer v * Scale, products and quotients are truncated toward      *)
(* zero.  Squared lengths are in units of 1 / Scale^2.  Masses, frictions  *)
(* and elapsed frame counts are exact rationals [num, den].  NaN is a      *)
(* value of its own which every arithmetic operation propagates and every  *)
(* comparison answers FALSE for, as in the source language.                *)
(***************************************************************************)
EXTENDS Integers, Sequences, FiniteSets, TLC

(***************************************************************************)
(* Bounds of the model.                                                    *)
(***************************************************************************)
\* fixed-point resolution: Scale model units are one unit of the program
Scale == 3
\* the path factory is asked for at most MaxPaths paths
MaxPaths == 2
\* ApplyForce is called at most MaxIterations times in one TickWhile callback;
\* a callback that needs more is reported as not returning
MaxIterations == 10
\* the recording the XmlReader reads holds ReaderLength cursor-movement states
ReaderLength == 6
\* the audio lasts Duration steps of the play head
Duration == 30

(***************************************************************************)
(* Program constants.                                                      *)
(***************************************************************************)
minMass == 1
maxMass == 10
\* frictions in tenths: 0.4 and 0.6
minFriction == 4
maxFriction == 6
\* enum Threshold { Force = 1, Velocity = 1 }
ThresholdForce == 1
ThresholdVelocity == 1
\* constructor arguments of the simulator
minBrushSize == 2
maxBrushSize == 8

(***************************************************************************)
(* Values.                                                                 *)
(***************************************************************************)
\* the number NaN (also what a missing coordinate becomes in arithmetic)
NaN == -1000000
\* the value undefined of a number-typed field
Undefined == -2000000
\* null / undefined of an object-typed field (a Vector2, a CursorState)
Null == <<>>

Rat(n, d) == [num |-> n, den |-> d]

Abs(a) == IF a < 0 THEN -a ELSE a
\* a * n / d, truncated toward zero
MulDiv(a, n, d) ==
    IF a = NaN THEN NaN
    ELSE LET p == a * n
         IN  IF (p >= 0) = (d > 0) THEN Abs(p) \div Abs(d) ELSE -(Abs(p) \div Abs(d))
Plus(a, b) == IF a = NaN \/ b = NaN THEN NaN ELSE a + b
Minus(a, b) == IF a = NaN \/ b = NaN THEN NaN ELSE a - b
Lt(a, b) == a # NaN /\ b # NaN /\ a < b
Gt(a, b) == a # NaN /\ b # NaN /\ a > b

RECURSIVE SqrtBetween(_, _, _)
SqrtBetween(n, lo, hi) ==
    IF lo >= hi THEN lo
    ELSE LET mid == (lo + hi + 1) \div 2
         IN  IF mid <= n \div mid THEN SqrtBetween(n, mid, hi)
             ELSE SqrtBetween(n, lo, mid - 1)
\* Math.sqrt on a squared fixed-point length
Sqrt(n) == IF n = NaN THEN NaN ELSE SqrtBetween(n, 0, n)

(***************************************************************************)
(* Helpers.Vector2.  Its source is not part of the files at hand; the      *)
(* operations are modelled from their use and from the specification.      *)
(***************************************************************************)
Vector2(x, y) == <<IF x = Undefined THEN NaN ELSE x, IF y = Undefined THEN NaN ELSE y>>
add(a, b) == <<Plus(a[1], b[1]), Plus(a[2], b[2])>>
subtract(a, b) == <<Minus(a[1], b[1]), Minus(a[2], b[2])>>
scale(a, n, d) == <<MulDiv(a[1], n, d), MulDiv(a[2], n, d)>>
getSizeSq(a) ==
    IF a[1] = NaN \/ a[2] = NaN THEN NaN ELSE a[1] * a[1] + a[2] * a[2]
getSize(a) == Sqrt(getSizeSq(a))
distanceTo(a, b) == getSize(subtract(a, b))
\* unit vector perpendicular to a
getNormal(a) ==
    LET len == getSize(a)
    IN  IF len = NaN \/ len = 0 THEN <<NaN, NaN>>
        ELSE <<MulDiv(-a[2], Scale, len), MulDiv(a[1], Scale, len)>>

(***************************************************************************)
(* Calls the simulator makes on its collaborators: the path factory, the   *)
(* event bus, the console and the Path of a stroke.  A handler's calls     *)
(* are recorded in the order it makes them.                                *)
(***************************************************************************)
Call(op) == [op |-> op, path |-> 0, a |-> Null, b |-> Null]
PathCall(op, p, a, b) == [op |-> op, path |-> p, a |-> a, b |-> b]

(***************************************************************************)
(* BrushInstance and the brush cache of DynaDraw.                          *)
(***************************************************************************)
BrushInstance(mass, friction, size) == [Mass |-> mass, Friction |-> friction, Size |-> size]
\* the value of BrushTip.brush before the first Reset
NoBrush == BrushInstance(Rat(0, 1), Rat(0, 1), Undefined)

\* the two interpolations for a simulator constructed with the sizes lo and hi
massBetween(lo, hi, brushSize) ==
    Rat(minMass * (hi - lo) + (maxMass - minMass) * (brushSize - lo), hi - lo)

frictionBetween(lo, hi, brushSize) ==
    Rat(maxFriction * (hi - lo) - (maxFriction - minFriction) * (brushSize - lo),
        10 * (hi - lo))

\* every brush as light as the lightest
interpolateMassFlat(brushSize) == Rat(minMass, 1)
interpolateMass(brushSize) == massBetween(minBrushSize, maxBrushSize, brushSize)

interpolateFriction(brushSize) == frictionBetween(minBrushSize, maxBrushSize, brushSize)

\* GetBrush that keeps the brush asked for last only
GetBrushEvicting(brushes, brushSize) ==
    [s \in {brushSize} |->
        BrushInstance(interpolateMass(brushSize), interpolateFriction(brushSize), brushSize)]

\* the cache after GetBrush(brushSize); the instance returned is brushes[brushSize]
GetBrush(brushes, brushSize) ==
    IF brushSize \notin DOMAIN brushes
    THEN [s \in DOMAIN brushes \cup {brushSize} |->
            IF s = brushSize
            THEN BrushInstance(interpolateMass(brushSize), interpolateFriction(brushSize), brushSize)
            ELSE brushes[s]]
    ELSE brushes

(***************************************************************************)
(* BrushTip.  previousAliased records that previousPosition and position   *)
(* are the same Vector2 object (getRadius assigns the reference), so that  *)
(* a later position.add changes both.                                      *)
(***************************************************************************)
NewBrushTip ==
    [reset |-> FALSE, brush |-> NoBrush, position |-> Null, startPosition |-> Null,
     previousPosition |-> Null, previousAliased |-> FALSE, previousPressure |-> Undefined,
     mousePosition |-> Null, velocity |-> Null, angle |-> Null, firstSegment |-> FALSE]

Reset(c, position, brush) ==
    [c EXCEPT !.reset = TRUE, !.brush = brush, !.position = position,
              !.startPosition = position, !.previousPosition = position,
              !.previousAliased = FALSE, !.previousPressure = -Scale,
              !.mousePosition = position, !.velocity = <<0, 0>>,
              !.firstSegment = TRUE]

\* ApplyForce that puts the brush on the target and stops it there
ApplyForceSnapping(c, mouse, elapsedFrames) ==
    IF mouse = Null \/ ~c.reset
    THEN [c |-> c, ret |-> 0, threw |-> TRUE]
    ELSE [c |-> [c EXCEPT !.position = mouse, !.velocity = <<0, 0>>],
          ret |-> 0, threw |-> FALSE]

\* ApplyForce that forgets the drag: the velocity is not scaled
ApplyForceUndamped(c, mouse, elapsedFrames) ==
    IF mouse = Null \/ ~c.reset
    THEN [c |-> c, ret |-> 0, threw |-> TRUE]
    ELSE IF Lt(getSizeSq(subtract(mouse, c.position)), ThresholdForce * Scale * Scale)
    THEN [c |-> c, ret |-> 0, threw |-> FALSE]
    ELSE
    LET velocity == add(c.velocity, scale(subtract(mouse, c.position),
                                          c.brush.Mass.den, c.brush.Mass.num))
    IN  IF Lt(getSizeSq(velocity), ThresholdVelocity * Scale * Scale)
        THEN [c |-> [c EXCEPT !.velocity = velocity], ret |-> 0, threw |-> FALSE]
        ELSE [c |-> [c EXCEPT !.mousePosition = mouse, !.angle = getNormal(velocity),
                              !.velocity = velocity, !.position = add(c.position, velocity),
                              !.previousPosition =
                                  IF c.previousAliased THEN add(c.position, velocity) ELSE @],
              ret |-> getSizeSq(velocity), threw |-> FALSE]

\* the result of ApplyForce: the BrushTip afterwards, the number returned,
\* and whether the call ended in a TypeError instead of returning
ApplyForce(c, mouse, elapsedFrames) ==
    IF mouse = Null \/ ~c.reset
    THEN [c |-> c, ret |-> 0, threw |-> TRUE]
    ELSE
    LET force == subtract(mouse, c.position)
    IN  IF Lt(getSizeSq(force), ThresholdForce * Scale * Scale)
        THEN [c |-> c, ret |-> 0, threw |-> FALSE]
        ELSE
        LET acceleration == scale(force, c.brush.Mass.den, c.brush.Mass.num)
            velocity == add(c.velocity, acceleration)
        IN  IF Lt(getSizeSq(velocity), ThresholdVelocity * Scale * Scale)
            THEN [c |-> [c EXCEPT !.velocity = velocity], ret |-> 0, threw |-> FALSE]
            ELSE
            LET angle == getNormal(velocity)
                dragged == scale(velocity,
                                 (c.brush.Friction.den - c.brush.Friction.num) * elapsedFrames.num,
                                 c.brush.Friction.den * elapsedFrames.den)
                position == add(c.position, dragged)
            IN  [c |-> [c EXCEPT !.mousePosition = mouse, !.angle = angle,
                                 !.velocity = dragged, !.position = position,
                                 !.previousPosition =
                                     IF c.previousAliased THEN position ELSE @],
                 ret |-> getSizeSq(dragged), threw |-> FALSE]

speedFactor(speed) ==
    LET floor == (4 * Scale) \div 10
        f == Minus(Scale, speed)
    IN  IF Gt(f, floor) THEN f ELSE IF f = NaN THEN NaN ELSE floor

\* the pressure between previousPressure and mousePressure at d1 / (d1 + d2)
interpolate(d1, d2, mousePressure, previousPressure) ==
    IF d1 = 0 /\ d2 = 0 THEN mousePressure
    ELSE IF d1 = NaN \/ d2 = NaN THEN NaN
    ELSE Plus(MulDiv(Minus(mousePressure, previousPressure), d1, d1 + d2), previousPressure)

interpolatePressure(c, mousePressure) ==
    interpolate(distanceTo(c.position, c.previousPosition),
                distanceTo(c.position, c.mousePosition),
                mousePressure, c.previousPressure)

\* if(this.previousPressure < 0) this.previousPressure = pressure
firstPressure(c, pressure) ==
    IF c.previousPressure < 0 /\ c.previousPressure # NaN
    THEN [c EXCEPT !.previousPressure = pressure] ELSE c

\* the BrushTip after getRadius and the radius it returns, once the pressure
\* is interpolated
radiusOf(c, interpolatedPressure, speed) ==
    [c |-> [c EXCEPT !.previousPosition = c.position, !.previousAliased = TRUE,
                     !.previousPressure = interpolatedPressure],
     radius |-> IF interpolatedPressure = NaN THEN NaN
                ELSE MulDiv(MulDiv(speedFactor(speed), c.brush.Size, 1),
                            interpolatedPressure, 2 * Scale)]

\* the BrushTip after getRadius and the radius it returns
getRadius(c, pressure, speed) ==
    radiusOf(firstPressure(c, pressure),
             interpolatePressure(firstPressure(c, pressure), pressure), speed)

\* the calls Draw makes on the path; angle is this.angle after scale(width)
Segment(c, path, angle) ==
    (IF c.firstSegment
     THEN <<PathCall("InitPath", path, add(c.startPosition, angle),
                     subtract(c.startPosition, angle))>>
     ELSE <<>>)
    \o <<PathCall("ExtendPath", path, add(c.position, angle), subtract(c.position, angle)),
         PathCall("Draw", path, Null, Null)>>

\* Draw from the point where getRadius has returned r
DrawWidth(c, path, r) ==
    [c |-> [r.c EXCEPT !.angle = scale(c.angle, r.radius, Scale), !.firstSegment = FALSE],
     calls |-> Segment(c, path, scale(c.angle, r.radius, Scale))]

\* the BrushTip after Draw and the calls made on the path
Draw(c, path, pressure) ==
    DrawWidth(c, path,
              getRadius(c, pressure,
                        MulDiv(getSize(c.velocity), 1, c.brush.Size * c.brush.Size)))

BrushTipStartPath(c, path, pt, pressure) ==
    LET r == getRadius(c, pressure, 0)
    IN  [c |-> r.c, calls |-> <<PathCall("StartPath", path, pt, <<r.radius>>)>>]

(***************************************************************************)
(* Inputs the environment can deliver.                                     *)
(***************************************************************************)
\* pointer positions of well-formed samples
Points == {<<0, 0>>, <<4 * Scale, 0>>}
\* pressures of well-formed samples: 0 (pen up) and 1 (pen down)
Pressures == {0, Scale}
\* a CursorState is <<X, Y, Pressure>>
WellFormed == {<<pt[1], pt[2], pr>> : pt \in Points, pr \in Pressures}
\* samples with a missing pressure or a missing coordinate, and no sample at all
Malformed == {Null, <<0, 0, Undefined>>, <<Undefined, Undefined, Scale>>}
Samples == WellFormed \cup Malformed
\* the sizes the brush-size buttons offer
BrushSizes == {minBrushSize, 4}
\* what can go wrong in a collaborator while a path is started
Faults == {"none", "pathFactory", "trigger"}
\* (time - lastAnimationTime) / oneFrame of a Tick after the first one
ElapsedFrames == {Rat(1, 1)}

(***************************************************************************)
(* State.                                                                  *)
(***************************************************************************)
VARIABLES
    slowSimulation,     \* constructor argument: Tick (TRUE) or TickWhile (FALSE)
    currentBrushSize,   \* DynaDraw.currentBrushSize.Size, Undefined until SetBrushSize
    brushes,            \* DynaDraw.brushes
    cursor,             \* DynaDraw.cursor, the BrushTip
    position,           \* DynaDraw.position, the pending target
    pressure,           \* DynaDraw.pressure
    path,               \* DynaDraw.path: 0 is undefined, n the n-th path the factory returned
    lastState,          \* DynaDraw.lastState: Null, or the one field of the last
                        \* CursorState that is ever read, <<Pressure>>
    scheduled,          \* the callback waiting in requestAnimationFrame
    sink,               \* the calls the Path held in path has received
    interrupted,        \* the handler that ran last obtained a new path while the
                        \* target of the previous one was still pending
    provider,           \* the XmlDataProvider, Null where none is constructed
    player              \* the AudioPlayer, Null where none is constructed

vars == <<slowSimulation, currentBrushSize, brushes, cursor, position, pressure, path,
          lastState, scheduled, sink, interrupted, provider, player>>

\* the fields of the DynaDraw object the handlers read and write
Self ==
    [currentBrushSize |-> currentBrushSize, brushes |-> brushes, cursor |-> cursor,
     position |-> position, pressure |-> pressure, path |-> path, lastState |-> lastState]

(***************************************************************************)
(* DynaDraw: the cursor-sample handler.  Each operator gives the object    *)
(* after the method, the calls made, and whether the method threw.         *)
(***************************************************************************)
Outcome(self, calls, threw) == [self |-> self, calls |-> calls, threw |-> threw]

\* the sample starts a new path: pen down after pen up or as the first sample
StartsPath(last, cs) ==
    IF cs = Null THEN FALSE
    ELSE IF cs[3] = Undefined \/ cs[3] <= 0 THEN FALSE
    ELSE IF last = Null THEN TRUE
    ELSE last[1] = 0

\* EndsPath that also holds after a sample with pressure 0
EndsPathAfterAny(last, cs) ==
    IF cs = Null \/ last = Null THEN FALSE
    ELSE IF cs[3] # Undefined /\ cs[3] > 0 THEN FALSE
    ELSE last[1] # Undefined /\ last[1] >= 0

\* the sample ends the path: no positive pressure after a positive pressure
EndsPath(last, cs) ==
    IF cs = Null \/ last = Null THEN FALSE
    ELSE IF cs[3] # Undefined /\ cs[3] > 0 THEN FALSE
    ELSE last[1] # Undefined /\ last[1] > 0

StartPath(self, pos, pr) ==
    IF self.currentBrushSize = Undefined
    THEN \* this.currentBrushSize.Size: TypeError before Reset is entered
         Outcome(self, <<>>, TRUE)
    ELSE
    LET cache == GetBrush(self.brushes, self.currentBrushSize)
        c1 == Reset(self.cursor, pos, cache[self.currentBrushSize])
        sp == BrushTipStartPath(c1, self.path, pos, pr)
    IN  Outcome([self EXCEPT !.brushes = cache, !.position = pos, !.pressure = pr,
                             !.cursor = sp.c],
                <<Call("cursor.Reset"), Call("cursor.StartPath")>> \o sp.calls, FALSE)

\* NextPoint that takes over the position only
NextPointKeepsPressure(self, pos, pr) ==
    Outcome([self EXCEPT !.position = pos], <<>>, FALSE)

NextPoint(self, pos, pr) ==
    Outcome([self EXCEPT !.position = pos, !.pressure = pr], <<>>, FALSE)

\* EndPath that also drops the target pressure to that of the pen-up sample
EndPathClearsPressure(self, pos, pr) ==
    Outcome([self EXCEPT !.position = pos, !.pressure = 0], <<>>, FALSE)

EndPath(self, pos, pr) ==
    Outcome([self EXCEPT !.position = pos], <<>>, FALSE)

\* the paths of the factory are numbered in the order it returns them; the
\* simulator holds the latest
pathFactory(latest) == latest + 1

\* ProcessNewState with the path started before the new path is assigned
ProcessNewStateStartsOldPath(self, cs, fault) ==
    IF cs = Null
    THEN Outcome(self, <<>>, TRUE)
    ELSE
    LET nextPoint == Vector2(cs[1], cs[2])
        Pressure == cs[3]
    IN  IF Pressure # Undefined /\ Pressure > 0
        THEN IF StartsPath(self.lastState, cs)
             THEN [StartPath(self, nextPoint, Pressure) EXCEPT
                       !.self.path = pathFactory(self.path),
                       !.calls = <<Call("this.StartPath")>> \o @
                                     \o <<Call("pathFactory"),
                                          PathCall("trigger", pathFactory(self.path), Null, Null)>>]
             ELSE [NextPoint(self, nextPoint, Pressure) EXCEPT
                       !.calls = <<Call("this.NextPoint")>> \o @]
        ELSE IF EndsPath(self.lastState, cs)
             THEN [EndPath(self, nextPoint, self.lastState[1]) EXCEPT
                       !.calls = <<Call("this.EndPath")>> \o @]
             ELSE Outcome(self, <<>>, FALSE)

\* the body of the try block
ProcessNewState(self, cs, fault) ==
    IF cs = Null
    THEN Outcome(self, <<>>, TRUE)
    ELSE
    LET nextPoint == Vector2(cs[1], cs[2])
        Pressure == cs[3]
    IN  IF Pressure # Undefined /\ Pressure > 0
        THEN IF StartsPath(self.lastState, cs)
             THEN IF fault = "pathFactory"
                  THEN Outcome(self, <<Call("pathFactory")>>, TRUE)
                  ELSE
                  LET s1 == [self EXCEPT !.path = pathFactory(self.path)]
                      notify == <<Call("pathFactory"), PathCall("trigger", s1.path, Null, Null)>>
                  IN  IF fault = "trigger"
                      THEN Outcome(s1, notify, TRUE)
                      ELSE [StartPath(s1, nextPoint, Pressure) EXCEPT
                                !.calls = notify \o <<Call("this.StartPath")>> \o @]
             ELSE [NextPoint(self, nextPoint, Pressure) EXCEPT
                       !.calls = <<Call("this.NextPoint")>> \o @]
        ELSE IF EndsPath(self.lastState, cs)
             THEN [EndPath(self, nextPoint, self.lastState[1]) EXCEPT
                       !.calls = <<Call("this.EndPath")>> \o @]
             ELSE Outcome(self, <<>>, FALSE)

\* a handler without the catch block: the exception leaves the call
Uncaught(r) == r

\* catch (err) { console.log(...) }
Caught(r) ==
    IF r.threw THEN Outcome(r.self, r.calls \o <<Call("console.log")>>, FALSE) ELSE r

ObserveCursorMovement(self, cs, fault) ==
    [Caught(ProcessNewState(self, cs, fault)) EXCEPT
         !.self.lastState = IF cs = Null THEN Null ELSE <<cs[3]>>,
         !.calls = <<Call("ObserveCursorMovement")>> \o @]

(***************************************************************************)
(* DynaDraw: the animation-frame callbacks.  threw means the callback      *)
(* ended in an uncaught exception, hung that its loop did not end.         *)
(***************************************************************************)
TickOutcome(self, calls, threw, hung) ==
    [self |-> self, calls |-> calls, threw |-> threw, hung |-> hung]

\* the do-while loop of TickWhile: ApplyForce, the accumulated step, the loop
\* condition and the rest drawn after the loop
RECURSIVE TickWhileLoop(_, _, _, _)
RECURSIVE TickWhileStep(_, _, _, _, _)
RECURSIVE TickWhileNext(_, _, _, _, _)

\* while (d2 > 0), and after the loop: draw the rest
TickWhileNext(self, step, calls, n, d2) ==
    IF Gt(d2, 0)
    THEN TickWhileLoop(self, step, calls, n + 1)
    ELSE IF Gt(step, 0)
    THEN LET rest == Draw(self.cursor, self.path, self.pressure)
         IN  TickOutcome([self EXCEPT !.cursor = rest.c],
                         calls \o <<Call("cursor.Draw")>> \o rest.calls, FALSE, FALSE)
    ELSE TickOutcome(self, calls, FALSE, FALSE)

\* the step of the loop without step = 0 after Draw
TickWhileStepAccumulating(self, step, calls, n, af) ==
    IF af.threw \/ self.currentBrushSize = Undefined
    THEN TickOutcome(self, calls, TRUE, FALSE)
    ELSE IF Gt(Plus(step, af.ret), self.currentBrushSize * Scale * Scale)
    THEN TickWhileNext([self EXCEPT !.cursor = Draw(af.c, self.path, self.pressure).c],
                       Plus(step, af.ret),
                       calls \o <<Call("cursor.Draw")>>
                             \o Draw(af.c, self.path, self.pressure).calls, n, af.ret)
    ELSE TickWhileNext([self EXCEPT !.cursor = af.c], Plus(step, af.ret), calls, n, af.ret)

\* step += d2; if(step > this.currentBrushSize.Size) { Draw; step = 0 }
TickWhileStep(self, step, calls, n, af) ==
    IF af.threw \/ self.currentBrushSize = Undefined
    THEN TickOutcome(self, calls, TRUE, FALSE)
    ELSE IF Gt(Plus(step, af.ret), self.currentBrushSize * Scale * Scale)
    THEN LET dr == Draw(af.c, self.path, self.pressure)
         IN  TickWhileNext([self EXCEPT !.cursor = dr.c], 0,
                           calls \o <<Call("cursor.Draw")>> \o dr.calls, n, af.ret)
    ELSE TickWhileNext([self EXCEPT !.cursor = af.c], Plus(step, af.ret), calls, n, af.ret)

\* d2 = this.cursor.ApplyForce(this.position, 1)
TickWhileLoop(self, step, calls, n) ==
    IF n >= MaxIterations
    THEN TickOutcome(self, calls, FALSE, TRUE)
    ELSE TickWhileStep(self, step, calls \o <<Call("cursor.ApplyForce")>>, n,
                       ApplyForce(self.cursor, self.position, Rat(1, 1)))

\* after the loop: this.position = null; requestAnimationFrame
TickWhileDone(r) ==
    IF r.threw \/ r.hung THEN r
    ELSE [r EXCEPT !.self.position = Null, !.calls = @ \o <<Call("requestAnimationFrame")>>]

TickWhile(self) ==
    IF self.position # Null
    THEN TickWhileDone(TickWhileLoop(self, 0, <<Call("TickWhile")>>, 0))
    ELSE TickOutcome(self, <<Call("TickWhile"), Call("requestAnimationFrame")>>, FALSE, FALSE)

\* Tick that does not look whether a target is pending
TickWithoutTarget(self, elapsedFrames) ==
    LET af == ApplyForce(self.cursor, self.position, elapsedFrames)
    IN  IF af.threw
        THEN TickOutcome(self, <<Call("Tick"), Call("cursor.ApplyForce")>>, TRUE, FALSE)
        ELSE IF Gt(af.ret, 0)
        THEN LET dr == Draw(af.c, self.path, self.pressure)
             IN  TickOutcome([self EXCEPT !.cursor = dr.c],
                             <<Call("Tick"), Call("cursor.ApplyForce"), Call("cursor.Draw")>>
                                 \o dr.calls \o <<Call("requestAnimationFrame")>>,
                             FALSE, FALSE)
        ELSE TickOutcome([self EXCEPT !.cursor = af.c, !.position = Null],
                         <<Call("Tick"), Call("cursor.ApplyForce"),
                           Call("requestAnimationFrame")>>, FALSE, FALSE)

\* Tick that keeps the target when ApplyForce returns 0
TickKeepsTarget(self, elapsedFrames) ==
    IF self.position # Null
    THEN LET af == ApplyForce(self.cursor, self.position, elapsedFrames)
         IN  IF af.threw
             THEN TickOutcome(self, <<Call("Tick"), Call("cursor.ApplyForce")>>, TRUE, FALSE)
             ELSE IF Gt(af.ret, 0)
             THEN LET dr == Draw(af.c, self.path, self.pressure)
                  IN  TickOutcome([self EXCEPT !.cursor = dr.c],
                                  <<Call("Tick"), Call("cursor.ApplyForce"), Call("cursor.Draw")>>
                                      \o dr.calls \o <<Call("requestAnimationFrame")>>,
                                  FALSE, FALSE)
             ELSE TickOutcome([self EXCEPT !.cursor = af.c],
                              <<Call("Tick"), Call("cursor.ApplyForce"),
                                Call("requestAnimationFrame")>>, FALSE, FALSE)
    ELSE TickOutcome(self, <<Call("Tick"), Call("requestAnimationFrame")>>, FALSE, FALSE)

Tick(self, elapsedFrames) ==
    IF self.position # Null
    THEN LET af == ApplyForce(self.cursor, self.position, elapsedFrames)
         IN  IF af.threw
             THEN TickOutcome(self, <<Call("Tick"), Call("cursor.ApplyForce")>>, TRUE, FALSE)
             ELSE IF Gt(af.ret, 0)
             THEN LET dr == Draw(af.c, self.path, self.pressure)
                  IN  TickOutcome([self EXCEPT !.cursor = dr.c],
                                  <<Call("Tick"), Call("cursor.ApplyForce"), Call("cursor.Draw")>>
                                      \o dr.calls \o <<Call("requestAnimationFrame")>>,
                                  FALSE, FALSE)
             ELSE TickOutcome([self EXCEPT !.cursor = af.c, !.position = Null],
                              <<Call("Tick"), Call("cursor.ApplyForce"),
                                Call("requestAnimationFrame")>>, FALSE, FALSE)
    ELSE TickOutcome(self, <<Call("Tick"), Call("requestAnimationFrame")>>, FALSE, FALSE)

(***************************************************************************)
(* The Path the simulator holds: how often its StartPath and InitPath have *)
(* been called, counted up to two, and whether its ExtendPath has been.    *)
(***************************************************************************)
PathMethods == {"StartPath", "InitPath", "ExtendPath"}
NoCalls == [m \in PathMethods |-> 0]
Counted(op, n) == IF n >= (IF op = "ExtendPath" THEN 1 ELSE 2) THEN n ELSE n + 1

RECURSIVE Received(_, _, _)
Received(counts, p, calls) ==
    IF calls = <<>> THEN counts
    ELSE LET k == Head(calls)
         IN  Received(IF k.op \in PathMethods /\ k.path = p
                      THEN [counts EXCEPT ![k.op] = Counted(k.op, @)]
                      ELSE counts,
                      p, Tail(calls))

\* the counts of the path held after a handler that made these calls
Sunk(r) == Received(IF r.self.path # path THEN NoCalls ELSE sink, r.self.path, r.calls)

(***************************************************************************)
(* The state machine.                                                      *)
(***************************************************************************)
\* new DynaDraw(pathFactory, slow, lo, hi, timer): the sizes are stored as
\* they come, the BrushTip is made and the first callback is registered
constructor(slow, lo, hi) ==
    [minBrushSize |-> lo, maxBrushSize |-> hi, cursor |-> NewBrushTip,
     scheduled |-> IF slow THEN "first" ELSE "TickWhile", threw |-> FALSE]

\* the DynaDraw object after construction
Constructed ==
    /\ slowSimulation \in BOOLEAN
    /\ currentBrushSize = Undefined
    /\ brushes = <<>>
    /\ cursor = constructor(slowSimulation, minBrushSize, maxBrushSize).cursor
    /\ position = Null
    /\ pressure = Undefined
    /\ path = 0
    /\ lastState = Null
    /\ scheduled = constructor(slowSimulation, minBrushSize, maxBrushSize).scheduled
    /\ sink = NoCalls
    /\ interrupted = FALSE

Init ==
    /\ Constructed
    /\ provider = Null
    /\ player = Null

\* the fields of the object become the next state
Becomes(self) ==
    /\ currentBrushSize' = self.currentBrushSize
    /\ brushes' = self.brushes
    /\ cursor' = self.cursor
    /\ position' = self.position
    /\ pressure' = self.pressure
    /\ path' = self.path
    /\ lastState' = self.lastState

SetBrushSize(size) ==
    /\ Becomes([Self EXCEPT !.currentBrushSize = size])
    /\ interrupted' = FALSE
    /\ UNCHANGED <<slowSimulation, scheduled, sink, provider, player>>

\* what a cursor sample leaves behind
Observed(r) ==
    /\ Becomes(r.self)
    /\ sink' = Sunk(r)
    /\ interrupted' = (r.self.path # path /\ position # Null)

Observe(cs, fault) ==
    /\ StartsPath(lastState, cs) \/ fault = "none"
    /\ StartsPath(lastState, cs) => path < MaxPaths
    /\ Observed(ObserveCursorMovement(Self, cs, fault))
    /\ UNCHANGED <<slowSimulation, scheduled, provider, player>>

\* what an animation-frame callback leaves behind
Ran(r, next) ==
    /\ Becomes(r.self)
    /\ sink' = Sunk(r)
    /\ scheduled' = IF r.threw THEN "none" ELSE IF r.hung THEN "hung" ELSE next
    /\ interrupted' = FALSE
    /\ UNCHANGED <<slowSimulation, provider, player>>

\* the callback the constructor registers: lastAnimationTime = time; Tick(time)
FirstFrame ==
    /\ scheduled = "first"
    /\ Ran(Tick(Self, Rat(0, 1)), "Tick")

TickFrame ==
    /\ scheduled = "Tick"
    /\ \E e \in ElapsedFrames : Ran(Tick(Self, e), "Tick")

TickWhileFrame ==
    /\ scheduled = "TickWhile"
    /\ Ran(TickWhile(Self), "TickWhile")

\* VideoEventType.Pause and VideoEventType.Stop: the constructor registers no
\* listener and the class has no method to halt the callbacks, so the event
\* leaves the simulator and the callback it has registered as they are
Pause(self, registered) == [self |-> self, scheduled |-> registered]

BrushSizeChanged == \E size \in BrushSizes : SetBrushSize(size)
CursorMoved == \E cs \in Samples, fault \in Faults : Observe(cs, fault)

Next ==
    \/ BrushSizeChanged
    \/ CursorMoved
    \/ FirstFrame
    \/ TickFrame
    \/ TickWhileFrame

Spec == Init /\ [][Next]_vars

(***************************************************************************)
(* Vocabulary of the properties.                                           *)
(***************************************************************************)
\* the names of the calls made, in order
Ops(calls) == [i \in DOMAIN calls |-> calls[i].op]
HasCall(calls, op) == \E i \in DOMAIN calls : calls[i].op = op
\* the calls made on Path objects
IsPathCall(k) == k.op \in {"StartPath", "InitPath", "ExtendPath", "Draw"}
OnPaths(calls) == SelectSeq(calls, IsPathCall)
\* what the animation-frame callback that is waiting does when it runs on self
PendingFrame(self) ==
    IF scheduled = "first" THEN {Tick(self, Rat(0, 1))}
    ELSE IF scheduled = "Tick" THEN {Tick(self, e) : e \in ElapsedFrames}
    ELSE IF scheduled = "TickWhile" THEN {TickWhile(self)}
    ELSE {}
\* well-formed samples with the pen down, with the pen up
PenDown == {cs \in WellFormed : cs[3] > 0}
PenUp == {cs \in WellFormed : cs[3] = 0}
\* the previous sample had a positive pressure
WasDown == IF lastState = Null THEN FALSE ELSE lastState[1] # Undefined /\ lastState[1] > 0
\* there is no previous sample, or it had pressure 0
WasUp == IF lastState = Null THEN TRUE ELSE lastState[1] = 0

(***************************************************************************)
(* C1.  A pen-down sample after a pen-up sample, or as the first sample,   *)
(* starts a new path: the path factory is called once, observers are told  *)
(* of the new path, BrushTip.Reset is called, BrushTip.StartPath calls     *)
(* StartPath of the new path once, in this order, and no InitPath,         *)
(* ExtendPath or Draw is called.                                           *)
(***************************************************************************)
C1_StartsNewPath ==
    \A cs \in PenDown :
        (WasUp /\ path < MaxPaths) =>
            LET r == ObserveCursorMovement(Self, cs, "none")
            IN  /\ Ops(r.calls) = <<"ObserveCursorMovement", "pathFactory", "trigger",
                                    "this.StartPath", "cursor.Reset", "cursor.StartPath",
                                    "StartPath">>
                /\ r.self.path # path
                /\ r.calls[3].path = r.self.path
                /\ r.calls[7].path = r.self.path

(***************************************************************************)
(* C2.  The path the simulator holds receives StartPath exactly once and   *)
(* before anything else; if a segment was emitted, InitPath exactly once,  *)
(* in the first Draw after Reset and before the first ExtendPath; every    *)
(* ExtendPath is followed at once by Draw.                                 *)
(***************************************************************************)
\* in calls, every ExtendPath is directly followed by Draw on the same path
ExtendThenDraw(calls) ==
    \A i \in DOMAIN calls :
        calls[i].op = "ExtendPath" =>
            /\ i + 1 \in DOMAIN calls
            /\ calls[i + 1].op = "Draw"
            /\ calls[i + 1].path = calls[i].path

C2_PathCommandOrder ==
    /\ path # 0 => sink.StartPath = 1
    /\ sink.InitPath > 0 => sink.StartPath = 1
    /\ sink.ExtendPath > 0 => sink.InitPath = 1
    /\ sink.InitPath > 0 => cursor.reset /\ ~cursor.firstSegment
    /\ \A r \in PendingFrame(Self) :
        /\ ExtendThenDraw(OnPaths(r.calls))
        /\ HasCall(r.calls, "InitPath") =>
              /\ cursor.firstSegment
              /\ sink.InitPath = 0
              /\ OnPaths(r.calls)[1].op = "InitPath"
        /\ HasCall(r.calls, "ExtendPath") /\ ~HasCall(r.calls, "InitPath") =>
              sink.InitPath = 1

(***************************************************************************)
(* C3.  Only the path the simulator holds, the one started last, receives  *)
(* calls: a handler that obtains a new path calls nothing on an earlier    *)
(* one, and no animation-frame callback calls InitPath, ExtendPath or Draw *)
(* on any path but the held one, also when the new path was started while  *)
(* the target of the previous stroke was still pending.                    *)
(***************************************************************************)
AllOn(calls, p) == \A i \in DOMAIN calls : IsPathCall(calls[i]) => calls[i].path = p

C3_OnlyHeldPathDrawn ==
    /\ \A r \in PendingFrame(Self) : r.self.path = path /\ AllOn(r.calls, path)
    /\ \A cs \in Samples :
        \A fault \in (IF StartsPath(lastState, cs) THEN Faults ELSE {"none"}) :
            LET r == ObserveCursorMovement(Self, cs, fault)
            IN  /\ r.self.path >= path
                /\ AllOn(r.calls, r.self.path)

\* a second path has just been started while the target of the first stroke
\* was still pending; a callback is waiting
C3_Witness ==
    /\ interrupted /\ path = 2 /\ sink.StartPath = 1 /\ cursor.reset
    /\ PendingFrame(Self) # {}

(***************************************************************************)
(* C4 as claimed.  Once a pen-up sample has been observed, the BrushTip is *)
(* inert: no animation-frame callback calls ApplyForce or Draw on it, its  *)
(* state is unchanged and no path command is emitted.                      *)
(***************************************************************************)
\* the callback r did nothing to the BrushTip and emitted nothing
Inert(r) ==
    /\ ~HasCall(r.calls, "cursor.ApplyForce")
    /\ ~HasCall(r.calls, "cursor.Draw")
    /\ OnPaths(r.calls) = <<>>
    /\ r.self.cursor = cursor

C4_InertAfterPenUp ==
    (lastState = <<0>> /\ cursor.reset) => \A r \in PendingFrame(Self) : Inert(r)

(***************************************************************************)
(* C4 amended.  After a pen-up the callbacks keep driving the BrushTip     *)
(* toward the recorded final position.  The BrushTip is inert once a       *)
(* callback has cleared the pending target: from then on no callback calls *)
(* ApplyForce or Draw, changes the BrushTip or emits a path command, and   *)
(* further pen-up samples leave the target cleared.                        *)
(***************************************************************************)
C4_InertOnceTargetCleared ==
    (lastState = <<0>> /\ position = Null) =>
        /\ \A r \in PendingFrame(Self) : Inert(r) /\ r.self.position = Null /\ ~r.threw
        /\ \A cs \in PenUp : ObserveCursorMovement(Self, cs, "none").self.position = Null

\* the pen is up after a stroke that drew a segment, the target has been
\* cleared and a callback is waiting
C4_Witness ==
    /\ lastState = <<0>> /\ cursor.reset /\ position = Null
    /\ sink.ExtendPath = 1 /\ cursor.position # cursor.startPosition
    /\ PendingFrame(Self) # {}

(***************************************************************************)
(* C5.  A pen-down sample after a pen-down sample changes the target       *)
(* position and the target pressure only: no path is obtained, no observer *)
(* is told, the BrushTip, the held path and the brush cache are unchanged  *)
(* and nothing is called on a path.                                        *)
(***************************************************************************)
C5_ContinueSetsTargetOnly ==
    WasDown =>
        \A cs \in PenDown :
            LET r == ObserveCursorMovement(Self, cs, "none")
            IN  /\ r.self = [Self EXCEPT !.position = <<cs[1], cs[2]>>, !.pressure = cs[3],
                                         !.lastState = <<cs[3]>>]
                /\ Ops(r.calls) = <<"ObserveCursorMovement", "this.NextPoint">>

\* a continuing sample has moved the target away from where the stroke began
\* and the brush still is
C5_Witness ==
    /\ WasDown /\ cursor.reset /\ sink.StartPath = 1 /\ sink.ExtendPath = 0
    /\ position # Null /\ position # cursor.startPosition
    /\ cursor.position = cursor.startPosition
    /\ pressure = lastState[1]

(***************************************************************************)
(* C6.  A pen-up sample after a pen-down sample makes its position the     *)
(* target; the target pressure, the held path, the BrushTip and the brush  *)
(* cache are unchanged and nothing is called on a path.                    *)
(***************************************************************************)
C6_EndPathSetsPositionOnly ==
    WasDown =>
        \A cs \in PenUp :
            LET r == ObserveCursorMovement(Self, cs, "none")
            IN  /\ r.self = [Self EXCEPT !.position = <<cs[1], cs[2]>>, !.lastState = <<0>>]
                /\ Ops(r.calls) = <<"ObserveCursorMovement", "this.EndPath">>

\* the pen went up away from where the stroke began, before the brush moved
C6_Witness ==
    /\ lastState = <<0>> /\ cursor.reset /\ sink.StartPath = 1 /\ sink.ExtendPath = 0
    /\ position # Null /\ position # cursor.startPosition
    /\ cursor.position = cursor.startPosition
    /\ pressure = Scale

(***************************************************************************)
(* C7.  A pen-up sample that is the first sample, or that follows a        *)
(* pen-up sample, does nothing: no path, no call, target unchanged, and    *)
(* the callbacks do what they would have done without it.                  *)
(***************************************************************************)
C7_PenUpAfterPenUpIsNoOp ==
    WasUp =>
        \A cs \in PenUp :
            LET r == ObserveCursorMovement(Self, cs, "none")
            IN  /\ r.self = [Self EXCEPT !.lastState = <<0>>]
                /\ Ops(r.calls) = <<"ObserveCursorMovement">>
                /\ {f.calls : f \in PendingFrame(r.self)} = {f.calls : f \in PendingFrame(Self)}

\* a pen-up sample was the first sample: nothing has been started
C7_Witness ==
    /\ lastState = <<0>> /\ path = 0 /\ ~cursor.reset /\ position = Null
    /\ pressure = Undefined /\ sink = NoCalls

(***************************************************************************)
(* C8.  SetBrushSize during a stroke has no effect on the stroke: the      *)
(* profile of the BrushTip stays the one the stroke started with, and the  *)
(* callback emits the path commands it would emit had the size not been    *)
(* changed since the stroke started.                                       *)
(***************************************************************************)
C8_BrushSizeFixedDuringStroke ==
    (cursor.reset /\ position # Null /\ path # 0) =>
        \A size \in BrushSizes :
            LET changed == [Self EXCEPT !.currentBrushSize = size]
                kept == [Self EXCEPT !.currentBrushSize = cursor.brush.Size]
            IN  /\ \A f \in PendingFrame(changed) : f.self.cursor.brush = cursor.brush
                /\ {OnPaths(f.calls) : f \in PendingFrame(changed)}
                       = {OnPaths(f.calls) : f \in PendingFrame(kept)}

(***************************************************************************)
(* C9.  A callback calls ApplyForce or Draw only after Reset and the       *)
(* StartPath of the held path have completed, and with a BrushTip that was *)
(* never reset the callback is a no-op: it changes nothing, emits nothing  *)
(* and does not throw.                                                     *)
(***************************************************************************)
C9_TickOnlyAfterReset ==
    \A r \in PendingFrame(Self) :
        /\ (HasCall(r.calls, "cursor.ApplyForce") \/ HasCall(r.calls, "cursor.Draw"))
               => cursor.reset /\ path # 0 /\ sink.StartPath >= 1
        /\ ~cursor.reset
               => ~r.threw /\ OnPaths(r.calls) = <<>> /\ r.self.cursor = cursor

(***************************************************************************)
(* C10.  The render loop never halts: after every callback the next one is *)
(* scheduled.                                                              *)
(***************************************************************************)
C10_RenderLoopNeverHalts ==
    scheduled \in {"first", "Tick", "TickWhile"}

(***************************************************************************)
(* C11.  ObserveCursorMovement never propagates an exception: whether the  *)
(* path factory, the notification of the observers, the start of the path  *)
(* or the reading of the sample throws, the call logs the error as its     *)
(* last act before it records the sample, and returns normally; a call in  *)
(* which nothing throws logs nothing.                                      *)
(***************************************************************************)
C11_NeverPropagates ==
    \A cs \in Samples :
        \A fault \in (IF StartsPath(lastState, cs) THEN Faults ELSE {"none"}) :
            LET r == ObserveCursorMovement(Self, cs, fault)
            IN  /\ ~r.threw
                /\ ProcessNewState(Self, cs, fault).threw
                       <=> r.calls[Len(r.calls)].op = "console.log"
                /\ r.self.lastState = IF cs = Null THEN Null ELSE <<cs[3]>>

\* a pen-down whose start threw after the path was obtained has been handled:
\* the path is held, the BrushTip was never reset, and the callbacks go on
C11_Witness ==
    /\ WasDown /\ path # 0 /\ ~cursor.reset /\ sink.StartPath = 0
    /\ scheduled \in {"first", "Tick", "TickWhile"}

(***************************************************************************)
(* C12.  A sample with a missing pressure or a missing coordinate that     *)
(* arrives during a stroke is ignored: target position, target pressure,   *)
(* held path, BrushTip and the remembered previous sample are unchanged.   *)
(***************************************************************************)
C12_MalformedSampleIgnored ==
    (WasDown /\ cursor.reset /\ path # 0) =>
        \A cs \in Malformed \ {Null} :
            ObserveCursorMovement(Self, cs, "none").self = Self

(***************************************************************************)
(* C13.  The pressure interpolation of a Draw uses as d1 the distance      *)
(* between the position of the brush and its position at the previous      *)
(* radius computation.  Between two Tick callbacks the brush rests where   *)
(* the last radius was computed (Tick moves it only right before a Draw),  *)
(* so in the Draw of the waiting Tick d1 is the distance the brush has     *)
(* just moved.                                                             *)
(***************************************************************************)
C13_InterpolationDistance ==
    (scheduled = "Tick" /\ cursor.reset /\ position # Null) =>
        \A e \in ElapsedFrames :
            LET af == ApplyForce(cursor, position, e)
            IN  Gt(af.ret, 0) =>
                    distanceTo(af.c.position, af.c.previousPosition)
                        = distanceTo(af.c.position, cursor.position)

(***************************************************************************)
(* The whole range of brushes.  SetBrushSize takes any size the tool bar    *)
(* hands over: a size under minBrushSize and the two ends of the range.     *)
(* The pen presses with more than one strength.  The board runs TickWhile,  *)
(* as it does when slowSimulation is off.                                   *)
(***************************************************************************)
Selectable == {1, minBrushSize, maxBrushSize}
Strengths == {0, 1, Scale}
PenSamples == {<<pt[1], pt[2], pr>> : pt \in Points, pr \in Strengths}

InitAnySize == Init /\ ~slowSimulation
AnySizeSelected == \E size \in Selectable : SetBrushSize(size)
PenMoved == \E cs \in PenSamples : Observe(cs, "none")

NextAnySize ==
    \/ AnySizeSelected
    \/ PenMoved
    \/ TickWhileFrame

SpecAnySize == InitAnySize /\ [][NextAnySize]_vars

(***************************************************************************)
(* C14: the do-while loop of TickWhile ends in every animation callback,   *)
(* for every brush size that can be selected, the sizes outside            *)
(* [minBrushSize, maxBrushSize] included: called again and again with the  *)
(* same target and elapsedFrames = 1, ApplyForce comes to return 0.        *)
(***************************************************************************)
C14_TickWhileLoopEnds ==
    scheduled = "TickWhile" => ~TickWhile(Self).hung

(***************************************************************************)
(* C15: in TickWhile mode the tip never lags the pointer: at the end of    *)
(* every animation callback that had a pending target the brush is within  *)
(* the force threshold of that target, |target - position|^2 < 1.          *)
(***************************************************************************)
Reached(target, r) ==
    (~r.threw /\ ~r.hung) =>
        Lt(getSizeSq(subtract(target, r.self.cursor.position)),
           ThresholdForce * Scale * Scale)

C15_TipReachesTarget ==
    (scheduled = "TickWhile" /\ position # Null) => Reached(position, TickWhile(Self))

(***************************************************************************)
(* C16: GetBrush is memoized and never evicts.  Every brush in the cache   *)
(* is the one made for its size, with the mass, friction and size it was   *)
(* made with, and the brush the tip carries is the cached one.  A further  *)
(* call for any size returns the cached brush of that size if there is     *)
(* one, adds exactly one entry if there is none, leaves every other entry  *)
(* as it is, and asked again returns the same.                             *)
(***************************************************************************)
MadeFor(size) == BrushInstance(interpolateMass(size), interpolateFriction(size), size)

C16_BrushCacheMemoized ==
    /\ \A s \in DOMAIN brushes : brushes[s] = MadeFor(s)
    /\ cursor.reset => /\ cursor.brush.Size \in DOMAIN brushes
                       /\ cursor.brush = brushes[cursor.brush.Size]
    /\ \A size \in Selectable :
           /\ DOMAIN GetBrush(brushes, size) = DOMAIN brushes \cup {size}
           /\ \A s \in DOMAIN brushes : GetBrush(brushes, size)[s] = brushes[s]
           /\ GetBrush(brushes, size)[size] = MadeFor(size)
           /\ GetBrush(GetBrush(brushes, size), size) = GetBrush(brushes, size)

\* two strokes with different sizes: both brushes are cached and the tip
\* carries the second one
C16_Witness ==
    /\ Cardinality(DOMAIN brushes) = 2
    /\ path = 2
    /\ cursor.reset

(***************************************************************************)
(* C17: constructing the simulator with maxBrushSize <= minBrushSize fails *)
(* at construction time: no simulator is created for such a configuration  *)
(* and no tick loop is started for it.                                     *)
(***************************************************************************)
Configured == {minBrushSize, maxBrushSize}

C17_EmptyRangeRejected ==
    \A lo \in Configured, hi \in Configured :
        hi <= lo => /\ constructor(slowSimulation, lo, hi).threw
                    /\ constructor(slowSimulation, lo, hi).scheduled = "none"

(***************************************************************************)
(* C18: pausing or stopping playback suspends the tick callback: while     *)
(* paused no further tick is scheduled or executed, and the BrushTip and   *)
(* the path state are kept for a later resume.                             *)
(***************************************************************************)
C18_PauseSuspendsTicks ==
    scheduled \in {"first", "Tick", "TickWhile"} =>
        /\ Pause(Self, scheduled).scheduled = "none"
        /\ Pause(Self, scheduled).self = Self

(***************************************************************************)
(* C19: ApplyForce, called in any state after Reset with a target whose    *)
(* squared distance from the brush is below the force threshold (the       *)
(* brush position itself among them), returns 0 and leaves position,       *)
(* velocity, angle and mousePosition as they are; and whenever ApplyForce  *)
(* returns 0 the brush position is unchanged.                              *)
(***************************************************************************)
Targets(c) == Points \cup {c.position, add(c.position, <<1, 0>>)}
AnyElapsedFrames == {Rat(0, 1), Rat(1, 1)}

Still(c, target, af) ==
    /\ Lt(getSizeSq(subtract(target, c.position)), ThresholdForce * Scale * Scale) =>
           /\ af.ret = 0
           /\ af.c.position = c.position
           /\ af.c.velocity = c.velocity
           /\ af.c.angle = c.angle
           /\ af.c.mousePosition = c.mousePosition
    /\ af.ret = 0 => af.c.position = c.position

C19_ReturnsZeroWithoutMoving ==
    cursor.reset =>
        \A target \in Targets(cursor), e \in AnyElapsedFrames :
            Still(cursor, target, ApplyForce(cursor, target, e))

\* a moving brush whose pending target is within the force threshold but is
\* not the brush position
C19_Witness ==
    /\ cursor.reset
    /\ cursor.velocity # <<0, 0>>
    /\ scheduled = "TickWhile"
    /\ IF position = Null THEN FALSE
       ELSE /\ position # cursor.position
            /\ Lt(getSizeSq(subtract(position, cursor.position)),
                  ThresholdForce * Scale * Scale)

(***************************************************************************)
(* C20: at every stroke start path.StartPath receives the pen-down point   *)
(* and a radius of exactly brushSize * pressure / 2 (speed factor 1, the   *)
(* pressure not interpolated), whatever pressure and position the previous *)
(* stroke left behind; with zero displacement interpolatePressure(p)       *)
(* returns exactly p.                                                      *)
(***************************************************************************)
StartedWith(calls, pt, radius) ==
    \A i \in DOMAIN calls :
        calls[i].op = "StartPath" => calls[i].a = pt /\ calls[i].b = <<radius>>

C20_StartRadiusFromPressure ==
    /\ \A cs \in Samples :
           (StartsPath(lastState, cs) /\ path < MaxPaths /\ currentBrushSize # Undefined) =>
               /\ HasCall(ObserveCursorMovement(Self, cs, "none").calls, "StartPath")
               /\ StartedWith(ObserveCursorMovement(Self, cs, "none").calls,
                              Vector2(cs[1], cs[2]), MulDiv(currentBrushSize, cs[3], 2))
    /\ \A p \in Pressures, previous \in Pressures : interpolate(0, 0, p, previous) = p

(***************************************************************************)
(* C21: brush profiles are the linear interpolation                        *)
(* mass = minMass + (maxMass - minMass) * t and                            *)
(* friction = maxFriction - (maxFriction - minFriction) * t with           *)
(* t = (size - minBrushSize) / (maxBrushSize - minBrushSize); for sizes    *)
(* minBrushSize < s1 < s2 < maxBrushSize the mass of s1 is at most the     *)
(* mass of s2 and the friction of s1 at least the friction of s2; and      *)
(* size 10 between 5 and 20 has mass 4.  Friction is counted in tenths.    *)
(***************************************************************************)
Inside == (minBrushSize + 1) .. (maxBrushSize - 1)
\* q is the fraction at + by * t, for t = (size - minBrushSize) / (maxBrushSize - minBrushSize)
Linear(q, at, by, size, tenths) ==
    q.num * (maxBrushSize - minBrushSize) * tenths
        = q.den * (at * (maxBrushSize - minBrushSize) + by * (size - minBrushSize))
AtMost(p, q) == p.num * q.den <= q.num * p.den

Accelerated(c, target) ==
    add(c.velocity, scale(subtract(target, c.position), c.brush.Mass.den, c.brush.Mass.num))
\* v * (1 - friction) * elapsedFrames
Dragged(v, friction, e) ==
    scale(v, (friction.den - friction.num) * e.num, friction.den * e.den)

PassesThresholds(c, target) ==
    /\ ~Lt(getSizeSq(subtract(target, c.position)), ThresholdForce * Scale * Scale)
    /\ ~Lt(getSizeSq(Accelerated(c, target)), ThresholdVelocity * Scale * Scale)

Stepped(c, target, e, af) ==
    PassesThresholds(c, target) =>
        /\ af.c.velocity = Dragged(Accelerated(c, target), c.brush.Friction, e)
        /\ af.c.position = add(c.position, af.c.velocity)
        /\ af.ret = getSizeSq(af.c.velocity)

AtRest == Reset(NewBrushTip, <<0, 0>>, BrushInstance(Rat(5, 1), Rat(5, 10), maxBrushSize))

C22_OneStepOfApplyForce ==
    /\ cursor.reset =>
           \A target \in Targets(cursor), e \in AnyElapsedFrames :
               Stepped(cursor, target, e, ApplyForce(cursor, target, e))
    /\ ApplyForce(AtRest, <<10 * Scale, 0>>, Rat(1, 1)).c.position = <<Scale, 0>>
    /\ ApplyForce(AtRest, <<10 * Scale, 0>>, Rat(1, 1)).ret = Scale * Scale

\* a brush that is moving already and whose pending target is beyond both
\* thresholds
C22_Witness ==
    /\ cursor.reset
    /\ scheduled = "TickWhile"
    /\ cursor.velocity # <<0, 0>>
    /\ IF position = Null THEN FALSE
       ELSE /\ PassesThresholds(cursor, position)
            /\ ApplyForce(cursor, position, Rat(1, 1)).ret > 0

(***************************************************************************)
(* The board in time-scaled mode: slowSimulation is on and every callback  *)
(* is a Tick.                                                              *)
(***************************************************************************)
InitTimeScaled == Init /\ slowSimulation

NextTimeScaled ==
    \/ BrushSizeChanged
    \/ CursorMoved
    \/ FirstFrame
    \/ TickFrame

SpecTimeScaled == InitTimeScaled /\ [][NextTimeScaled]_vars

(***************************************************************************)
(* C23: in time-scaled mode every animation callback performs at most one  *)
(* ApplyForce, followed by exactly one Draw if and only if ApplyForce      *)
(* returned a positive value; when ApplyForce returns 0 the pending target *)
(* is cleared, and no later tick calls ApplyForce or Draw until a cursor   *)
(* sample sets a target again.                                             *)
(***************************************************************************)
CountOf(calls, op) == Cardinality({i \in DOMAIN calls : calls[i].op = op})
\* the position in calls of the only call of op
IndexOf(calls, op) == CHOOSE i \in DOMAIN calls : calls[i].op = op

\* r is what Tick does with the target and the outcome af of ApplyForce
OneStepPerTick(target, af, r) ==
    /\ CountOf(r.calls, "cursor.ApplyForce") = (IF target = Null THEN 0 ELSE 1)
    /\ CountOf(r.calls, "cursor.Draw") = (IF ~af.threw /\ Gt(af.ret, 0) THEN 1 ELSE 0)
    /\ CountOf(r.calls, "cursor.Draw") = 1 =>
           IndexOf(r.calls, "cursor.Draw") = IndexOf(r.calls, "cursor.ApplyForce") + 1
    /\ (~af.threw /\ af.ret = 0) => r.self.position = Null
    /\ target = Null => r.self.position = Null /\ r.self.cursor = cursor

C23_OneStepPerTick ==
    /\ scheduled = "first" =>
           OneStepPerTick(position, ApplyForce(cursor, position, Rat(0, 1)),
                          Tick(Self, Rat(0, 1)))
    /\ scheduled = "Tick" =>
           \A e \in ElapsedFrames :
               OneStepPerTick(position, ApplyForce(cursor, position, e), Tick(Self, e))

\* a Tick is waiting whose ApplyForce moves the brush, after an earlier Tick
\* has drawn a segment of this stroke
C23_Witness ==
    /\ scheduled = "Tick"
    /\ cursor.reset
    /\ sink.ExtendPath > 0
    /\ HasCall(Tick(Self, Rat(1, 1)).calls, "cursor.Draw")

(***************************************************************************)
(* C24: in TickWhile mode no movement of the brush is left undrawn at the  *)
(* end of an animation callback: if an ApplyForce of the callback returned *)
(* a positive value, a Draw is issued after the last change of position,   *)
(* its ExtendPath being at the final position of the brush; the distance   *)
(* accumulator is reset at each Draw, so no position is drawn twice in a   *)
(* row; afterwards the target is cleared until the next cursor sample.     *)
(* The loop goes on only while ApplyForce returns a positive value, so an  *)
(* ApplyForce of the callback returned one exactly if the first one did.   *)
(***************************************************************************)
Extends(calls) == SelectSeq(calls, LAMBDA k : k.op = "ExtendPath")
Last(s) == s[Len(s)]

DrawnAt(k, c) == k.a = add(c.position, c.angle) /\ k.b = subtract(c.position, c.angle)

NothingUndrawn(c, first, r) ==
    (~r.threw /\ ~r.hung) =>
        /\ r.self.position = Null
        /\ Gt(first.ret, 0) =>
               /\ Extends(r.calls) # <<>>
               /\ DrawnAt(Last(Extends(r.calls)), r.self.cursor)
               /\ Last(OnPaths(r.calls)).op = "Draw"
        /\ ~Gt(first.ret, 0) => Extends(r.calls) = <<>>
        /\ first.ret = 0 => r.self.cursor.position = c.position
        /\ \A i \in 1 .. Len(Extends(r.calls)) - 1 :
               add(Extends(r.calls)[i].a, Extends(r.calls)[i].b)
                   # add(Extends(r.calls)[i + 1].a, Extends(r.calls)[i + 1].b)

C24_NothingLeftUndrawn ==
    (scheduled = "TickWhile" /\ position # Null /\ cursor.reset) =>
        NothingUndrawn(cursor, ApplyForce(cursor, position, Rat(1, 1)), TickWhile(Self))

\* a callback is waiting that draws more than one segment and comes to an end
C24_Witness ==
    /\ scheduled = "TickWhile" /\ position # Null /\ cursor.reset
    /\ ~TickWhile(Self).hung
    /\ Len(Extends(TickWhile(Self).calls)) > 1

(***************************************************************************)
(* XmlDataProvider.  The cursor-movement states of the recording are       *)
(* numbered 1 .. ReaderLength in the order the reader hands them out;      *)
(* 0 is the { time: 0 } of rewind and EndState the state made up when the  *)
(* reader is exhausted.  Elements of other types are passed on at once and *)
(* are left out.  timers holds the callbacks waiting in setTimeout in the  *)
(* order they come due, timeout the handle of the last one, delivered the  *)
(* states of the 'new-state' events triggered so far.                      *)
(***************************************************************************)
EndState == ReaderLength + 1

Unloaded ==
    [read |-> 0, running |-> FALSE, reachedEnd |-> FALSE, currentState |-> Undefined,
     lastState |-> Undefined, timers |-> <<>>, timeout |-> 0, delivered |-> <<>>]

\* videoInfo.getNext(): the next state and the reader afterwards
getNext(p) == IF p.read < ReaderLength THEN p.read + 1 ELSE Undefined
Read(p) == [p EXCEPT !.read = IF @ < ReaderLength THEN @ + 1 ELSE @]

Pending(timers, handle) == SelectSeq(timers, LAMBDA t : t.id # handle)

stop(p) ==
    [p EXCEPT !.timers = Pending(@, p.timeout),
              !.running = FALSE]

getCurrentCursorState(p) ==
    IF getNext(p) = Undefined
    THEN [stop([p EXCEPT !.reachedEnd = TRUE])
              EXCEPT !.lastState = p.currentState, !.currentState = EndState]
    ELSE [Read(p) EXCEPT !.lastState = p.currentState, !.currentState = getNext(p)]

rewind(p) ==
    [Read(p) EXCEPT !.lastState = 0, !.currentState = getNext(p), !.reachedEnd = FALSE]

\* tick from the point where getCurrentCursorState has returned
tickWith(p) ==
    IF p.running
    THEN [p EXCEPT !.timers = Append(@, [id |-> p.timeout + 1, state |-> p.currentState]),
                   !.timeout = @ + 1]
    ELSE p

tick(p) == tickWith(getCurrentCursorState(p))

start(p) == tick([p EXCEPT !.running = TRUE])

\* the callback of setTimeout that comes due first
timedOut(p) ==
    tick([p EXCEPT !.timers = Tail(@), !.delivered = Append(@, Head(p.timers).state)])

\* the provider after the file is loaded
Loaded == rewind(Unloaded)

board == <<slowSimulation, currentBrushSize, brushes, cursor, position, pressure, path,
           lastState, scheduled, sink, interrupted>>

InitPlayback ==
    /\ Constructed
    /\ ~slowSimulation
    /\ provider = Loaded
    /\ player = Null

StartEvent ==
    /\ provider' = start(provider)
    /\ UNCHANGED <<board, player>>

PauseEvent ==
    /\ provider' = stop(provider)
    /\ UNCHANGED <<board, player>>

TimeoutEvent ==
    /\ provider.timers # <<>>
    /\ provider' = timedOut(provider)
    /\ UNCHANGED <<board, player>>

NextPlayback ==
    \/ StartEvent
    \/ PauseEvent
    \/ TimeoutEvent

SpecPlayback == InitPlayback /\ [][NextPlayback]_vars

(***************************************************************************)
(* C25: during playback, for any interleaving of 'start' and 'pause'       *)
(* events, every cursor state obtained from the reader is delivered by a   *)
(* 'new-state' event exactly once and in reader order.  No state is        *)
(* consumed without being delivered: each state the reader has handed out  *)
(* has been delivered, waits in a timeout, or is still held as the current *)
(* state, as the first state after rewind and the state whose timeout a    *)
(* 'pause' has cleared are.                                                *)
(***************************************************************************)
Delivered(p) == {p.delivered[i] : i \in DOMAIN p.delivered}
Waiting(p) == {p.timers[i].state : i \in DOMAIN p.timers}

C25_EveryStateDelivered ==
    /\ \A s \in 1 .. provider.read :
           s \in Delivered(provider) \cup Waiting(provider) \cup {provider.currentState}
    /\ \A i \in DOMAIN provider.delivered, j \in DOMAIN provider.delivered :
           i < j => provider.delivered[i] < provider.delivered[j]

(***************************************************************************)
(* C26: once XmlDataProvider has handled a 'pause' event, the playback     *)
(* timer delivers no 'new-state' event and consumes no further state from  *)
(* the reader until the next 'start' event, for every sequence of 'start'  *)
(* and 'pause' events, two 'start' events in a row included.               *)
(***************************************************************************)
C26_NoDeliveryWhilePaused ==
    (~provider.running /\ provider.timers # <<>>) =>
        /\ timedOut(provider).delivered = provider.delivered
        /\ timedOut(provider).read = provider.read

(***************************************************************************)
(* AudioPlayer.  paused, currentTime and oncanplay are those of the        *)
(* HTMLAudioElement; seeking says that currentTime has been assigned and   *)
(* the element has not yet fired canplay; oncanplay is the sequence of the *)
(* at most one callback assigned to it.  Each method gives the player      *)
(* afterwards and the VideoEvents it has triggered; an event the player    *)
(* triggers reaches the player's own listener within the method.           *)
(***************************************************************************)
NewPlayer ==
    [isReady |-> TRUE, playing |-> FALSE, reachedEnd |-> FALSE, paused |-> TRUE,
     currentTime |-> 0, oncanplay |-> <<>>, seeking |-> FALSE]

Done(p, events) == [p |-> p, events |-> events]

\* this.audio.pause(): a playing element stops and fires pause, which
\* onpause = InitiatePause turns into the Pause event
audioPause(p) ==
    IF p.paused THEN Done(p, <<>>)
    ELSE Done([p EXCEPT !.paused = TRUE], <<"Pause">>)

PlayerPause(p) == IF p.isReady THEN audioPause(p) ELSE Done(p, <<>>)

Rewind(p) ==
    IF p.isReady
    THEN Done([audioPause(p).p EXCEPT !.currentTime = 0, !.seeking = TRUE,
                                      !.reachedEnd = FALSE],
              audioPause(p).events)
    ELSE Done(p, <<>>)

\* Play from the point where Rewind, if it was due, has returned r
PlayAfter(r) == Done([r.p EXCEPT !.paused = FALSE], r.events)

Play(p) ==
    IF p.isReady
    THEN PlayAfter(IF p.reachedEnd = TRUE THEN Rewind(p) ELSE Done(p, <<>>))
    ELSE Done(p, <<>>)

\* VideoEvents.trigger(VideoEventType.Start), heard by Play
InitiatePlay(p) == Done(Play(p).p, <<"Start">> \o Play(p).events)

\* VideoEvents.trigger(VideoEventType.Pause), heard by Pause
InitiatePause(p) == Done(PlayerPause(p).p, <<"Pause">> \o PlayerPause(p).events)

ReachedEnd(p) ==
    Done(PlayerPause([p EXCEPT !.reachedEnd = TRUE]).p,
         PlayerPause([p EXCEPT !.reachedEnd = TRUE]).events)

ChangePosition(p, seconds, callback) ==
    [p EXCEPT !.oncanplay = callback, !.currentTime = seconds, !.seeking = TRUE]

\* JumpTo to the time duration * progress
JumpTo(p, time) ==
    IF p.playing = TRUE
    THEN Done(ChangePosition(InitiatePause([p EXCEPT !.reachedEnd = FALSE]).p,
                             time, <<"InitiatePlay">>),
              InitiatePause([p EXCEPT !.reachedEnd = FALSE]).events)
    ELSE Done(ChangePosition([p EXCEPT !.reachedEnd = FALSE], time, <<>>), <<>>)

\* the element fires canplay: oncanplay is called if it is set
canplay(p) ==
    IF p.oncanplay = <<"InitiatePlay">>
    THEN InitiatePlay([p EXCEPT !.seeking = FALSE])
    ELSE Done([p EXCEPT !.seeking = FALSE], <<>>)

\* the times JumpTo is asked for
JumpTargets == {0, Duration \div 2}

InitAudio ==
    /\ Constructed
    /\ ~slowSimulation
    /\ provider = Null
    /\ player = NewPlayer

Heard(r) ==
    /\ player' = r.p
    /\ UNCHANGED <<board, provider>>

StartHeard == Heard(Play(player))
PauseHeard == Heard(PlayerPause(player))
JumpToHeard == \E time \in JumpTargets : Heard(JumpTo(player, time))

CanPlayFired ==
    /\ player.seeking
    /\ Heard(canplay(player))

\* the play head moves on while the audio plays
TimeUpdated ==
    /\ ~player.paused
    /\ player.currentTime < Duration
    /\ Heard(Done([player EXCEPT !.currentTime = @ + 1], <<"CurrentTime">>))

\* onended triggers ReachEnd, heard by ReachedEnd
Ended ==
    /\ ~player.paused
    /\ player.currentTime = Duration
    /\ Heard(ReachedEnd(player))

NextAudio ==
    \/ StartHeard
    \/ PauseHeard
    \/ JumpToHeard
    \/ CanPlayFired
    \/ TimeUpdated
    \/ Ended

SpecAudio == InitAudio /\ [][NextAudio]_vars

(***************************************************************************)
(* C27: JumpTo called while the audio is playing pauses the playback       *)
(* (triggers the Pause event) before it changes the position, and starts   *)
(* it again (triggers the Start event) as soon as the audio can play at    *)
(* the new position; called while the audio is not playing it changes the  *)
(* position without starting playback; in both cases reachedEnd is cleared.*)
(***************************************************************************)
Triggered(events, e) == \E i \in DOMAIN events : events[i] = e

\* r is what JumpTo to time t made of the player p
Jumped(p, t, r) ==
    /\ ~r.p.reachedEnd
    /\ r.p.currentTime = t
    /\ r.p.paused
    /\ IF ~p.paused
       THEN /\ Triggered(r.events, "Pause")
            /\ Triggered(canplay(r.p).events, "Start")
            /\ ~canplay(r.p).p.paused
       ELSE /\ r.events = <<>>
            /\ canplay(r.p).events = <<>>
            /\ canplay(r.p).p.paused

C27_JumpToPausesAndResumes ==
    \A t \in JumpTargets : Jumped(player, t, JumpTo(player, t))

====
